---- MODULE Spec2Model ----
(***************************************************************************)
(* Model of the document extraction pipeline of src/data/extractor.py:     *)
(* extract_json_from_response (the three-tier JSON recovery),              *)
(* extract_document (encode, one HTTP call, parse, SQLite write) and       *)
(* process_batch_documents (the sequential batch driver), with the schema  *)
(* of src/data/init_db.py, and the two tasks of the parallel DAG of        *)
(* src/airflow/dags/extraction_dag.py.                                     *)
(*                                                                         *)
(* A text is a sequence of chunks.  Every chunk stands for a fixed         *)
(* character string, so that strip, split, the regular expression and the  *)
(* JSON grammar act on chunks exactly as the code acts on the characters:  *)
(*   "{" "}" "[" "]" "," ":"   the JSON punctuation                        *)
(*   " "  "\n"                 a blank and a line break                    *)
(*   "FENCE"                   a markdown fence, three backticks           *)
(*   "json"                    the language tag of a fence                 *)
(*   "x"                       a word of prose                             *)
(*   "1"                       the digit 1 (adjacent digits form a number) *)
(*   "null"                    the JSON literal null                       *)
(*   a member of StrLit        that word as a JSON string literal, quoted  *)
(*   "a:1"                     the three tokens  "a" : 1                   *)
(***************************************************************************)
EXTENDS Integers, Sequences, FiniteSets, TLC

VARIABLES
    content,      \* SpecExtract: the text handed to extract_json_from_response
    extracted,    \* SpecExtract: what the call returned ("idle" before the call)
    dir,          \* the image files of the two input folders
    batch,        \* process_batch_documents: its position and its locals
    results,      \* process_batch_documents: the results dictionary
    call,         \* extract_document: position and locals of the call of each caller
    conn,         \* the SQLite connection of each caller, with its open transaction
    db,           \* the committed content of the database file
    trace,        \* the extract_document calls and the sleeps, in order
    lanes         \* the two tasks of the parallel DAG: position and locals

vars == <<content, extracted, dir, batch, results, call, conn, db, trace, lanes>>
pipeVars == <<dir, batch, results, call, conn, db, trace, lanes>>

(***************************************************************************)
(* Bounds                                                                  *)
(***************************************************************************)
MaxLen == 5          \* longest text enumerated exhaustively over Alphabet
MaxFiles == 2        \* most image files in the two folders together
MaxLaneFiles == 2    \* the same, for the run of the two parallel tasks

(***************************************************************************)
(* Python values                                                           *)
(***************************************************************************)
None == [kind |-> "null"]
Num(n) == [kind |-> "num", num |-> n]
Str(s) == [kind |-> "str", str |-> s]
List(items) == [kind |-> "list", items |-> items]
Dict(m) == [kind |-> "dict", map |-> m]
EmptyMap == [k \in {} |-> None]

Bool(b) == [kind |-> "bool", bool |-> b]
Text(t) == [kind |-> "text", text |-> t]
Path(folder, name) == [kind |-> "path", folder |-> folder, name |-> name]

IsDict(v) == v.kind = "dict"

\* d.get(k), d[k] = v and k in d of a dict d.
Get(d, k) == IF k \in DOMAIN d.map THEN d.map[k] ELSE None
GetOr(d, k, default) == IF k \in DOMAIN d.map THEN d.map[k] ELSE default
Put(d, k, v) == Dict((k :> v) @@ d.map)
HasKey(d, k) == k \in DOMAIN d.map

\* The truth value of a Python value.
Truthy(v) ==
    CASE v.kind = "null" -> FALSE
      [] v.kind = "bool" -> v.bool
      [] v.kind = "num" -> v.num # 0
      [] v.kind = "list" -> v.items # <<>>
      [] v.kind = "dict" -> DOMAIN v.map # {}
      [] OTHER -> TRUE

(***************************************************************************)
(* Chunks and tokens                                                       *)
(***************************************************************************)
Whitespace == {" ", "\n"}
StrLit == {"a", "document_type", "entries", "INDEX_1", "INDEX_2", "error",
           "parsing_error"}
Fence == "FENCE"
JsonTag == "json"

\* The JSON tokens of one chunk.
ChunkTokens(c) == IF c = "a:1" THEN <<"a", ":", "1">> ELSE <<c>>

RECURSIVE Tokens(_)
Tokens(s) == IF s = <<>> THEN <<>> ELSE ChunkTokens(Head(s)) \o Tokens(Tail(s))

\* str.strip(): leading and trailing whitespace removed.
RECURSIVE LStrip(_)
LStrip(s) == IF s # <<>> /\ Head(s) \in Whitespace THEN LStrip(Tail(s)) ELSE s

RECURSIVE RStrip(_)
RStrip(s) ==
    IF s # <<>> /\ s[Len(s)] \in Whitespace THEN RStrip(SubSeq(s, 1, Len(s) - 1)) ELSE s

Strip(s) == RStrip(LStrip(s))

(***************************************************************************)
(* json.loads                                                              *)
(***************************************************************************)
ParseFail == [ok |-> FALSE, val |-> None, pos |-> 0]
ParseOk(v, p) == [ok |-> TRUE, val |-> v, pos |-> p]

RECURSIVE SkipWs(_, _)
SkipWs(t, i) == IF i <= Len(t) /\ t[i] \in Whitespace THEN SkipWs(t, i + 1) ELSE i

\* The end of the run of digits that starts at i.
RECURSIVE DigitsEnd(_, _)
DigitsEnd(t, i) == IF i <= Len(t) /\ t[i] = "1" THEN DigitsEnd(t, i + 1) ELSE i

\* The number written as n digits 1.
RECURSIVE Ones(_)
Ones(n) == IF n = 0 THEN 0 ELSE 10 * Ones(n - 1) + 1

RECURSIVE ParseValue(_, _)
RECURSIVE ParseMembers(_, _, _)
RECURSIVE ParseItems(_, _, _)

\* One JSON value starting at token i (scan_once of the decoder).
ParseValue(t, i) ==
    IF i > Len(t) THEN ParseFail
    ELSE IF t[i] = "{" THEN
        LET j == SkipWs(t, i + 1) IN
        IF j <= Len(t) /\ t[j] = "}" THEN ParseOk(Dict(EmptyMap), j + 1)
        ELSE ParseMembers(t, j, EmptyMap)
    ELSE IF t[i] = "[" THEN
        LET j == SkipWs(t, i + 1) IN
        IF j <= Len(t) /\ t[j] = "]" THEN ParseOk(List(<<>>), j + 1)
        ELSE ParseItems(t, j, <<>>)
    ELSE IF t[i] \in StrLit THEN ParseOk(Str(t[i]), i + 1)
    ELSE IF t[i] = "1" THEN
        LET e == DigitsEnd(t, i) IN ParseOk(Num(Ones(e - i)), e)
    ELSE IF t[i] = "null" THEN ParseOk(None, i + 1)
    ELSE ParseFail

\* The members of an object from token i on (JSONObject): a key, a colon, a
\* value, then a comma and the next member, or the closing brace.  A key
\* given twice keeps its last value.
ParseMembers(t, i, acc) ==
    IF i > Len(t) \/ t[i] \notin StrLit THEN ParseFail
    ELSE
        LET c == SkipWs(t, i + 1) IN
        IF c > Len(t) \/ t[c] # ":" THEN ParseFail
        ELSE
            LET v == ParseValue(t, SkipWs(t, c + 1)) IN
            IF ~v.ok THEN ParseFail
            ELSE
                LET n == SkipWs(t, v.pos)
                    m == (t[i] :> v.val) @@ acc
                IN  IF n > Len(t) THEN ParseFail
                    ELSE IF t[n] = "}" THEN ParseOk(Dict(m), n + 1)
                    ELSE IF t[n] = "," THEN ParseMembers(t, SkipWs(t, n + 1), m)
                    ELSE ParseFail

\* The items of an array from token i on (JSONArray).
ParseItems(t, i, acc) ==
    LET v == ParseValue(t, i) IN
    IF ~v.ok THEN ParseFail
    ELSE
        LET n == SkipWs(t, v.pos)
            l == Append(acc, v.val)
        IN  IF n > Len(t) THEN ParseFail
            ELSE IF t[n] = "]" THEN ParseOk(List(l), n + 1)
            ELSE IF t[n] = "," THEN ParseItems(t, SkipWs(t, n + 1), l)
            ELSE ParseFail

\* json.loads(s): one value, whitespace around it, and nothing else
\* ("Extra data" otherwise).  ok = FALSE stands for json.JSONDecodeError.
JsonLoads(s) ==
    LET t == Tokens(s)
        v == ParseValue(t, SkipWs(t, 1))
    IN  IF v.ok /\ SkipWs(t, v.pos) > Len(t) THEN [ok |-> TRUE, val |-> v.val]
        ELSE [ok |-> FALSE, val |-> None]

(***************************************************************************)
(* extract_json_from_response                                              *)
(***************************************************************************)
Min(S) == CHOOSE m \in S : \A n \in S : m <= n
Max(S) == CHOOSE m \in S : \A n \in S : m >= n

NoMatch == [matched |-> FALSE, group |-> <<>>]

\* The regular expression  fence (json)? \s* ( \{ .*? \} ) \s* fence  tried
\* at position i: the body starts at the brace that follows the fence, the
\* optional tag and whitespace, and ends at the first closing brace that is
\* followed by whitespace and a fence.
FenceMatchAt(s, i) ==
    IF s[i] # Fence THEN NoMatch
    ELSE
        LET j == IF i + 1 <= Len(s) /\ s[i + 1] = JsonTag THEN i + 2 ELSE i + 1
            b == SkipWs(s, j)
        IN  IF b > Len(s) \/ s[b] # "{" THEN NoMatch
            ELSE
                LET ends == {e \in (b + 1)..Len(s) :
                                /\ s[e] = "}"
                                /\ SkipWs(s, e + 1) <= Len(s)
                                /\ s[SkipWs(s, e + 1)] = Fence}
                IN  IF ends = {} THEN NoMatch
                    ELSE [matched |-> TRUE, group |-> SubSeq(s, b, Min(ends))]

\* re.search: the match at the leftmost position that has one.
FenceSearch(s) ==
    LET starts == {i \in 1..Len(s) : FenceMatchAt(s, i).matched} IN
    IF starts = {} THEN NoMatch ELSE FenceMatchAt(s, Min(starts))

\* str.split on the line break.
RECURSIVE SplitLines(_, _)
SplitLines(s, cur) ==
    IF s = <<>> THEN <<cur>>
    ELSE IF Head(s) = "\n" THEN <<cur>> \o SplitLines(Tail(s), <<>>)
    ELSE SplitLines(Tail(s), Append(cur, Head(s)))

StartsWithBrace(line) == LET l == Strip(line) IN l # <<>> /\ l[1] = "{"
EndsWithBrace(line) == LET l == Strip(line) IN l # <<>> /\ l[Len(l)] = "}"

\* The lines a..b joined by line breaks (the empty text when b < a).
RECURSIVE JoinLines(_, _, _)

\* Mutant: the slice ends before line b.
JoinLines_Exclusive(lines, a, b) ==
    IF a >= b THEN <<>> ELSE JoinLines(lines, a, b - 1)

JoinLines(lines, a, b) ==
    IF a > b THEN <<>>
    ELSE IF a = b THEN lines[a]
    ELSE lines[a] \o <<"\n">> \o JoinLines(lines, a + 1, b)

\* Mutant: the scan from the top keeps the last line that starts with a brace.
LineScan_LastStart(s) ==
    LET lines == SplitLines(Strip(s), <<>>)
        S == {i \in 1..Len(lines) : StartsWithBrace(lines[i])}
        E == {i \in 1..Len(lines) : EndsWithBrace(lines[i])}
    IN  IF S = {} \/ E = {} THEN [found |-> FALSE, text |-> <<>>]
        ELSE [found |-> TRUE, text |-> JoinLines(lines, Max(S), Max(E))]

\* The text the line scan hands to json.loads; found = FALSE when no line
\* starts with a brace or no line ends with one.
LineScan(s) ==
    LET lines == SplitLines(Strip(s), <<>>)
        S == {i \in 1..Len(lines) : StartsWithBrace(lines[i])}
        E == {i \in 1..Len(lines) : EndsWithBrace(lines[i])}
    IN  IF S = {} \/ E = {} THEN [found |-> FALSE, text |-> <<>>]
        ELSE [found |-> TRUE, text |-> JoinLines(lines, Min(S), Max(E))]

Tier1(s) == JsonLoads(Strip(s))
Tier2(s) ==
    LET m == FenceSearch(s) IN
    IF m.matched THEN JsonLoads(m.group) ELSE [ok |-> FALSE, val |-> None]
Tier3(s) ==
    LET l == LineScan(s) IN
    IF l.found THEN JsonLoads(l.text) ELSE [ok |-> FALSE, val |-> None]

\* Mutant: the line scan is tried before the fenced block.
ExtractJson_ScanFirst(s) ==
    IF Tier1(s).ok
    THEN [val |-> Tier1(s).val, tier |-> 1, calls |-> <<"loads1">>]
    ELSE IF LineScan(s).found /\ Tier3(s).ok
    THEN [val |-> Tier3(s).val, tier |-> 3,
          calls |-> <<"loads1", "scan", "loads3">>]
    ELSE IF FenceSearch(s).matched /\ Tier2(s).ok
    THEN [val |-> Tier2(s).val, tier |-> 2,
          calls |-> <<"loads1", "scan", "search", "loads2">>]
    ELSE [val |-> None, tier |-> 0, calls |-> <<"loads1", "scan", "search">>]

\* The function: val is what it returns, tier the strategy that returned it
\* (0: the final return None), calls the parsing steps it made, in order.
ExtractJson(s) ==
    IF Tier1(s).ok
    THEN [val |-> Tier1(s).val, tier |-> 1, calls |-> <<"loads1">>]
    ELSE IF FenceSearch(s).matched /\ Tier2(s).ok
    THEN [val |-> Tier2(s).val, tier |-> 2,
          calls |-> <<"loads1", "search", "loads2">>]
    ELSE
        LET c2 == IF FenceSearch(s).matched
                  THEN <<"loads1", "search", "loads2">>
                  ELSE <<"loads1", "search">>
        IN  IF LineScan(s).found /\ Tier3(s).ok
            THEN [val |-> Tier3(s).val, tier |-> 3,
                  calls |-> c2 \o <<"scan", "loads3">>]
            ELSE [val |-> None, tier |-> 0,
                  calls |-> c2 \o (IF LineScan(s).found
                                   THEN <<"scan", "loads3">> ELSE <<"scan">>)]

\* Before the call: nothing returned yet.
Idle == [val |-> None, tier |-> -1, calls |-> <<>>]

(***************************************************************************)
(* The database (src/data/init_db.py) and extract_document                 *)
(***************************************************************************)
Procs == {"batch", "lane1", "lane2"}

EmptyDb == [documents |-> <<>>, index1_entries |-> <<>>, index2_entries |-> <<>>]

\* tx holds the rows of the open transaction; lock says the connection has
\* the write lock of the database file, which SQLite gives to the first
\* statement that writes and takes back at commit, rollback or close.
ClosedConn == [open |-> FALSE, tx |-> EmptyDb, lock |-> FALSE]

\* posts counts the requests.post calls of the call; before is the committed
\* database when the call began.
NoCall ==
    [pc |-> "idle", image_path |-> None, index_type |-> "", posts |-> 0,
     content |-> None, json_data |-> None, document_id |-> 0, k |-> 0,
     result |-> None, before |-> EmptyDb]

\* The timestamp of datetime.now().isoformat(), left abstract.
Now == Str("now")

\* What sqlite3 binds to a parameter: None, int, float, str, bytes.
Bindable(v) == v.kind \in {"null", "num", "str", "path"}

\* The tables as the connection of p sees them: committed rows, then its own.
View(p, table) == db[table] \o conn[p].tx[table]

\* INTEGER PRIMARY KEY AUTOINCREMENT: one more than the largest id used.
NextId(p, table) == Len(View(p, table)) + 1

\* The dictionaries extract_document returns for a failure.
ErrorResult(c, msg) ==
    Dict([source_path |-> c.image_path, processed_at |-> Now,
          index_type |-> Str(c.index_type), error |-> Str(msg)])

ParseFailureResult(c) ==
    Dict([source_path |-> c.image_path, processed_at |-> Now,
          index_type |-> Str(c.index_type), raw_content |-> c.content,
          parsing_error |-> Bool(TRUE),
          error |-> Str("Could not extract valid JSON from response")])

Returns(p, r) == call' = [call EXCEPT ![p].pc = "return", ![p].result = r]

\* The replies of the model that the pipeline is run on.
Entry == <<"{", "a:1", "}">>
Doc(entries) ==
    <<"{", "document_type", ":", "INDEX_1", ",", "entries", ":">> \o entries \o <<"}">>

Replies == {
    Doc(<<"[", "]">>),
    <<"x", "\n", "FENCE", "json", "\n">>
        \o Doc(<<"[">> \o Entry \o <<",">> \o Entry \o <<"]">>) \o <<"\n", "FENCE">>,
    <<"x">>,
    <<"1">>,
    Doc(<<"null">>),
    Doc(<<"[">> \o Entry \o <<",", "1", "]">>),
    <<"{", "a:1", "}">>,
    <<"{", "error", ":", "1", ",", "document_type", ":", "INDEX_2", ",",
      "entries", ":", "[">> \o Entry \o <<"]", "}">>,
    <<"{", "parsing_error", ":", "1", ",", "document_type", ":", "INDEX_1", ",",
      "entries", ":", "[", "]", "}">>
}

\* try: base64_encode_image(image_path)  except: return the encoding error
Encode(p) ==
    /\ call[p].pc = "encode"
    /\ \E readable \in BOOLEAN :
          IF readable
          THEN call' = [call EXCEPT ![p].pc = "post"]
          ELSE Returns(p, ErrorResult(call[p], "Image encoding error"))
    /\ UNCHANGED <<content, extracted, dir, lanes, batch, results, conn, db, trace>>

\* What requests.post, raise_for_status, response.json and the look-up of
\* choices[0].message.content can come to.
HttpOutcomes ==
    {"timeout", "http_5xx", "bad_body", "bad_body_old", "no_choices",
     "no_message", "null_content", "ok"}

\* Mutant: a request that times out is sent a second time.
Post_Retry(p) ==
    /\ call[p].pc = "post"
    /\ call' = [call EXCEPT ![p].posts = @ + 2, ![p].pc = "return",
                            ![p].result = ErrorResult(call[p], "Request error")]
    /\ UNCHANGED <<content, extracted, dir, lanes, batch, results, conn, db, trace>>

\* requests.post(...) and the handling of its response, up to the content.
Post(p) ==
    /\ call[p].pc = "post"
    /\ \E outcome \in HttpOutcomes :
          LET c == [call[p] EXCEPT !.posts = @ + 1] IN
          CASE outcome \in {"timeout", "http_5xx", "bad_body"} ->
                  \* RequestException, HTTPError, requests.JSONDecodeError
                  call' = [call EXCEPT ![p] =
                      [c EXCEPT !.pc = "return",
                                !.result = ErrorResult(c, "Request error")]]
            [] outcome \in {"bad_body_old", "no_message"} ->
                  \* ValueError of response.json() before requests 2.27, KeyError
                  call' = [call EXCEPT ![p] =
                      [c EXCEPT !.pc = "return",
                                !.result = ErrorResult(c, "Unexpected error")]]
            [] outcome = "no_choices" ->
                  call' = [call EXCEPT ![p] =
                      [c EXCEPT !.pc = "return",
                                !.result = ErrorResult(c, "No response content found")]]
            [] outcome = "null_content" ->
                  call' = [call EXCEPT ![p] = [c EXCEPT !.pc = "parse", !.content = None]]
            [] outcome = "ok" ->
                  \E reply \in Replies :
                      call' = [call EXCEPT ![p] =
                          [c EXCEPT !.pc = "parse", !.content = Text(reply)]]
    /\ UNCHANGED <<content, extracted, dir, lanes, batch, results, conn, db, trace>>

\* json_data = extract_json_from_response(content), then the metadata.
Parse(p) ==
    /\ call[p].pc = "parse"
    /\ LET c == call[p] IN
       IF c.content.kind # "text"
       THEN \* content.strip() of None: AttributeError, caught at line 406
            Returns(p, ErrorResult(c, "Unexpected error"))
       ELSE
           LET json_data == ExtractJson(c.content.text).val IN
           IF json_data = None THEN Returns(p, ParseFailureResult(c))
           ELSE IF ~IsDict(json_data)
           THEN \* json_data["source_path"] = ...: TypeError, caught at line 406
                Returns(p, ErrorResult(c, "Unexpected error"))
           ELSE call' = [call EXCEPT
                    ![p].pc = "connect",
                    ![p].json_data =
                        Put(Put(Put(json_data, "source_path", c.image_path),
                                "processed_at", Now),
                            "index_type", Str(c.index_type))]
    /\ UNCHANGED <<content, extracted, dir, lanes, batch, results, conn, db, trace>>

\* Mutant: a database error is reported as an extraction error.
DbError_AsError(p) == Returns(p, ErrorResult(call[p], "Database error"))

\* except Exception as db_error: json_data["database_error"] = str(db_error);
\* return json_data.  The connection is not closed here; its transaction is
\* never committed.
DbError(p) ==
    call' = [call EXCEPT
        ![p].pc = "return",
        ![p].result = Put(call[p].json_data, "database_error", Str("db_error"))]

\* conn = sqlite3.connect(...); cursor = conn.cursor()
Connect(p) ==
    /\ call[p].pc = "connect"
    /\ \E opened \in BOOLEAN :
          IF opened
          THEN /\ conn' = [conn EXCEPT ![p] = [open |-> TRUE, tx |-> EmptyDb,
                                                 lock |-> FALSE]]
               /\ call' = [call EXCEPT ![p].pc = "insert_document"]
          ELSE DbError(p) /\ UNCHANGED conn
    /\ UNCHANGED <<content, extracted, dir, lanes, batch, results, db, trace>>

DocumentRow(p) ==
    LET j == call[p].json_data IN
    [id |-> NextId(p, "documents"),
     document_type |-> Get(j, "document_type"),
     year |-> Get(j, "year"),
     office_location |-> Get(j, "office_location"),
     confidence |-> Get(j, "confidence"),
     extraction_notes |-> Get(j, "extraction_notes"),
     source_path |-> call[p].image_path]

\* The binding of the six parameters of the INSERT.
DocumentBinds(row) ==
    \A f \in {"document_type", "year", "office_location", "confidence",
              "extraction_notes", "source_path"} : Bindable(row[f])

\* NOT NULL of documents.document_type and documents.source_path, and the
\* binding of the six parameters.
DocumentAccepted(row) ==
    /\ row.document_type # None /\ row.source_path # None
    /\ DocumentBinds(row)

\* What "for entry in json_data.get('entries', [])" iterates over; ok = FALSE
\* is the TypeError of a value that is not iterable.
RECURSIVE SetToSeq(_)
SetToSeq(S) ==
    IF S = {} THEN <<>> ELSE LET x == CHOOSE x \in S : TRUE IN <<Str(x)>> \o SetToSeq(S \ {x})
Iterate(v) ==
    CASE v.kind = "list" -> [ok |-> TRUE, items |-> v.items]
      [] v.kind = "dict" -> [ok |-> TRUE, items |-> SetToSeq(DOMAIN v.map)]
      [] v.kind = "str" -> [ok |-> TRUE, items |-> <<v>>]
      [] OTHER -> [ok |-> FALSE, items |-> <<>>]

EntriesOf(j) == Iterate(GetOr(j, "entries", List(<<>>)))

\* No other connection has the write lock: a statement that writes waits
\* for it (timeout of sqlite3.connect) and raises "database is locked".
WriteLockFree(p) == \A q \in Procs \ {p} : ~conn[q].lock

\* Mutant: the INSERT does not wait for the write lock.
InsertDocument_NoLock(p) ==
    /\ call[p].pc = "insert_document"
    /\ \E executed \in BOOLEAN :
          IF executed /\ DocumentAccepted(DocumentRow(p))
                      /\ EntriesOf(call[p].json_data).ok
          THEN /\ conn' = [conn EXCEPT ![p].tx.documents = Append(@, DocumentRow(p)),
                                       ![p].lock = TRUE]
               /\ call' = [call EXCEPT ![p].pc = "insert_entries",
                                       ![p].document_id = DocumentRow(p).id,
                                       ![p].k = 1]
          ELSE DbError(p) /\ UNCHANGED conn
    /\ UNCHANGED <<content, extracted, dir, lanes, batch, results, db, trace>>

\* cursor.execute(INSERT INTO documents ...); document_id = cursor.lastrowid;
\* then the entries are looked up for the loop.  The statement runs when the
\* parameters bind and the write lock is had; it keeps the lock also when
\* NOT NULL then rejects the row.
InsertDocument(p) ==
    /\ call[p].pc = "insert_document"
    /\ \E executed \in BOOLEAN :
          IF executed /\ WriteLockFree(p) /\ DocumentAccepted(DocumentRow(p))
                      /\ EntriesOf(call[p].json_data).ok
          THEN /\ conn' = [conn EXCEPT ![p].tx.documents = Append(@, DocumentRow(p)),
                                       ![p].lock = TRUE]
               /\ call' = [call EXCEPT ![p].pc = "insert_entries",
                                       ![p].document_id = DocumentRow(p).id,
                                       ![p].k = 1]
          ELSE IF executed /\ WriteLockFree(p) /\ DocumentAccepted(DocumentRow(p))
          THEN \* the row is inserted, then iterating the entries raises
               /\ conn' = [conn EXCEPT ![p].tx.documents = Append(@, DocumentRow(p)),
                                       ![p].lock = TRUE]
               /\ DbError(p)
          ELSE IF executed /\ WriteLockFree(p) /\ DocumentBinds(DocumentRow(p))
          THEN \* IntegrityError: NOT NULL constraint failed
               /\ conn' = [conn EXCEPT ![p].lock = TRUE]
               /\ DbError(p)
          ELSE DbError(p) /\ UNCHANGED conn
    /\ UNCHANGED <<content, extracted, dir, lanes, batch, results, db, trace>>

EntryTable(index_type) ==
    IF index_type = "INDEX_1" THEN "index1_entries" ELSE "index2_entries"

\* Mutant: the entry refers to the id the next document would get.
Index1Row_NextDoc(p, entry) ==
    [id |-> NextId(p, "index1_entries"),
     document_id |-> NextId(p, "documents"),
     serial_number |-> Get(entry, "serial_number"),
     name_of_person |-> Get(entry, "name_of_person"),
     family_details |-> Get(entry, "family_details"),
     police_station |-> Get(entry, "police_station"),
     religion |-> Get(entry, "religion"),
     occupation |-> Get(entry, "occupation"),
     interest_of_person |-> Get(entry, "interest_of_person"),
     where_registered |-> Get(entry, "where_registered"),
     book_1_volume |-> Get(entry, "book_1_volume"),
     book_2_page |-> Get(entry, "book_2_page")]

Index1Row(p, entry) ==
    [id |-> NextId(p, "index1_entries"),
     document_id |-> call[p].document_id,
     serial_number |-> Get(entry, "serial_number"),
     name_of_person |-> Get(entry, "name_of_person"),
     family_details |-> Get(entry, "family_details"),
     police_station |-> Get(entry, "police_station"),
     religion |-> Get(entry, "religion"),
     occupation |-> Get(entry, "occupation"),
     interest_of_person |-> Get(entry, "interest_of_person"),
     where_registered |-> Get(entry, "where_registered"),
     book_1_volume |-> Get(entry, "book_1_volume"),
     book_2_page |-> Get(entry, "book_2_page")]

Index2Row(p, entry) ==
    [id |-> NextId(p, "index2_entries"),
     document_id |-> call[p].document_id,
     serial_number |-> Get(entry, "serial_number"),
     property_name |-> Get(entry, "property_name"),
     pargana_town_thana |-> Get(entry, "Pargana/Town/Thana"),
     location |-> Get(entry, "location"),
     nature_of_transaction |-> Get(entry, "nature_of_transaction"),
     where_registered |-> Get(entry, "where_registered"),
     book_1_volume |-> Get(entry, "book_1_volume"),
     book_1_page |-> Get(entry, "book_1_page")]

EntryRow(p, entry) ==
    IF call[p].index_type = "INDEX_1" THEN Index1Row(p, entry) ELSE Index2Row(p, entry)

\* entry.get needs a dict (AttributeError otherwise); every value is bound.
EntryAccepted(p, entry) ==
    /\ IsDict(entry)
    /\ \A f \in DOMAIN EntryRow(p, entry) \ {"id", "document_id"} :
          Bindable(EntryRow(p, entry)[f])

\* The rows of a transaction added to the committed tables.
Committed(d, tx) ==
    [documents |-> d.documents \o tx.documents,
     index1_entries |-> d.index1_entries \o tx.index1_entries,
     index2_entries |-> d.index2_entries \o tx.index2_entries]


\* Mutant: every insert is committed at once (autocommit).
InsertEntry_Autocommit(p) ==
    /\ call[p].pc = "insert_entries"
    /\ LET items == EntriesOf(call[p].json_data).items
           k == call[p].k
           table == EntryTable(call[p].index_type)
       IN  IF k > Len(items)
           THEN call' = [call EXCEPT ![p].pc = "commit"] /\ UNCHANGED <<conn, db>>
           ELSE \E executed \in BOOLEAN :
                   IF executed /\ EntryAccepted(p, items[k])
                   THEN /\ db' = [Committed(db, conn[p].tx) EXCEPT
                               ![table] = Append(@, EntryRow(p, items[k]))]
                        /\ conn' = [conn EXCEPT ![p].tx = EmptyDb, ![p].lock = FALSE]
                        /\ call' = [call EXCEPT ![p].k = k + 1]
                   ELSE DbError(p) /\ UNCHANGED <<conn, db>>
    /\ UNCHANGED <<content, extracted, dir, lanes, batch, results, trace>>

\* One turn of the loop over the entries: cursor.execute(INSERT INTO
\* index1_entries / index2_entries ...); after the last entry, on to commit.
InsertEntry(p) ==
    /\ call[p].pc = "insert_entries"
    /\ LET items == EntriesOf(call[p].json_data).items
           k == call[p].k
           table == EntryTable(call[p].index_type)
       IN  IF k > Len(items)
           THEN call' = [call EXCEPT ![p].pc = "commit"] /\ UNCHANGED conn
           ELSE \E executed \in BOOLEAN :
                   IF executed /\ EntryAccepted(p, items[k])
                   THEN /\ conn' = [conn EXCEPT
                               ![p].tx[table] = Append(@, EntryRow(p, items[k]))]
                        /\ call' = [call EXCEPT ![p].k = k + 1]
                   ELSE DbError(p) /\ UNCHANGED conn
    /\ UNCHANGED <<content, extracted, dir, lanes, batch, results, db, trace>>

\* Mutant: the connection is closed without the commit.
Commit_Skipped(p) ==
    /\ call[p].pc = "commit"
    /\ call' = [call EXCEPT ![p].pc = "close"]
    /\ UNCHANGED <<content, extracted, dir, lanes, batch, results, conn, db, trace>>

\* conn.commit()
Commit(p) ==
    /\ call[p].pc = "commit"
    /\ \E done \in BOOLEAN :
          IF done
          THEN /\ db' = Committed(db, conn[p].tx)
               /\ conn' = [conn EXCEPT ![p].tx = EmptyDb, ![p].lock = FALSE]
               /\ call' = [call EXCEPT ![p].pc = "close"]
          ELSE DbError(p) /\ UNCHANGED <<db, conn>>
    /\ UNCHANGED <<content, extracted, dir, lanes, batch, results, trace>>

\* conn.close(); return json_data
Close(p) ==
    /\ call[p].pc = "close"
    /\ conn' = [conn EXCEPT ![p] = ClosedConn]
    /\ Returns(p, call[p].json_data)
    /\ UNCHANGED <<content, extracted, dir, lanes, batch, results, db, trace>>

(***************************************************************************)
(* process_batch_documents                                                 *)
(***************************************************************************)
\* The names of a folder, in the order os.listdir happens to give them.
Listing == <<"b.png", "a.jpg", "notes.txt", "c.jpeg", "d.JPG">>

\* f.lower().endswith(('.jpg', '.jpeg', '.png'))
IsImage(name) == name \in {"a.jpg", "b.png", "c.jpeg", "d.JPG"}

\* The place of a name in the lexicographic order of list.sort().
Rank(name) ==
    CASE name = "a.jpg" -> 1
      [] name = "b.png" -> 2
      [] name = "c.jpeg" -> 3
      [] name = "d.JPG" -> 4
      [] name = "notes.txt" -> 5

\* A folder that holds n image files, and a text file when it holds any.
RECURSIVE FolderWith(_, _)
FolderWith(n, from) ==
    IF n = 0 \/ from > Len(Listing) THEN {}
    ELSE IF IsImage(Listing[from])
         THEN {Listing[from]} \cup FolderWith(n - 1, from + 1)
         ELSE {Listing[from]} \cup FolderWith(n, from + 1)

\* The place of a name in Listing.
Place(name) == CHOOSE i \in 1..Len(Listing) : Listing[i] = name

\* Mutant: the paths are left in the order of the listing.
RECURSIVE SortedPaths_Unsorted(_, _)
SortedPaths_Unsorted(folder, names) ==
    IF names = {} THEN <<>>
    ELSE LET first == CHOOSE n \in names : \A m \in names : Place(n) <= Place(m)
         IN  <<Path(folder, first)>> \o SortedPaths_Unsorted(folder, names \ {first})

\* [os.path.join(folder, f) for f in os.listdir(folder) if ...], sorted.
RECURSIVE SortedPaths(_, _)
SortedPaths(folder, names) ==
    IF names = {} THEN <<>>
    ELSE LET first == CHOOSE n \in names : \A m \in names : Rank(n) <= Rank(m)
         IN  <<Path(folder, first)>> \o SortedPaths(folder, names \ {first})

ImageFiles(folder) == SortedPaths(folder, {n \in dir[folder] : IsImage(n)})

NewResults ==
    [batch_info |-> [total_index1_docs |-> 0, total_index2_docs |-> 0, total_docs |-> 0],
     index1_results |-> <<>>,
     index2_results |-> <<>>,
     summary |-> [index1_successful |-> 0, index1_failed |-> 0,
                  index2_successful |-> 0, index2_failed |-> 0]]

\* listed: the listing of both folders went through.
NewBatch ==
    [pc |-> "start", folder |-> "index1", i |-> 1,
     index1_files |-> <<>>, index2_files |-> <<>>, listed |-> FALSE,
     saved |-> FALSE]

\* The tasks process_index1 and process_index2 of document_extraction_parallel.
Lanes == {"lane1", "lane2"}
NewLane == [pc |-> "start", files |-> <<>>, i |-> 1, results |-> <<>>]

IndexType(folder) == IF folder = "index1" THEN "INDEX_1" ELSE "INDEX_2"
FilesOf(folder) == IF folder = "index1" THEN batch.index1_files ELSE batch.index2_files

PipeIdle ==
    /\ dir = [index1 |-> {}, index2 |-> {}]
    /\ batch = NewBatch
    /\ results = NewResults
    /\ call = [p \in Procs |-> NoCall]
    /\ conn = [p \in Procs |-> ClosedConn]
    /\ db = EmptyDb
    /\ trace = <<>>
    /\ lanes = [p \in Lanes |-> NewLane]

\* The state when process_batch_documents is entered: the two folders hold
\* at most MaxFiles images, the database holds the empty tables of init_db.
Init ==
    /\ content = <<>>
    /\ extracted = Idle
    /\ \E n1, n2 \in 0..MaxFiles :
          /\ n1 + n2 <= MaxFiles
          /\ dir = [index1 |-> FolderWith(n1, 1), index2 |-> FolderWith(n2, 1)]
    /\ batch = NewBatch
    /\ results = NewResults
    /\ call = [p \in Procs |-> NoCall]
    /\ conn = [p \in Procs |-> ClosedConn]
    /\ db = EmptyDb
    /\ trace = <<>>
    /\ lanes = [p \in Lanes |-> NewLane]

\* Mutant: a folder that cannot be listed ends the run with the exception.
ListFiles_Raises ==
    /\ batch.pc = "start"
    /\ \E listed \in BOOLEAN :
          IF listed
          THEN /\ batch' = [batch EXCEPT !.pc = "loop", !.folder = "index1", !.i = 1,
                                         !.listed = TRUE,
                                         !.index1_files = ImageFiles("index1"),
                                         !.index2_files = ImageFiles("index2")]
               /\ results' = [results EXCEPT
                     !.batch_info =
                         [total_index1_docs |-> Len(ImageFiles("index1")),
                          total_index2_docs |-> Len(ImageFiles("index2")),
                          total_docs |-> Len(ImageFiles("index1"))
                                         + Len(ImageFiles("index2"))]]
          ELSE batch' = [batch EXCEPT !.pc = "raised"] /\ UNCHANGED results
    /\ UNCHANGED <<content, extracted, dir, lanes, call, conn, db, trace>>

\* try: os.listdir of both folders, the filter, the sort; except: return the
\* zeroed results (listed = FALSE: one of the two folders cannot be listed).
\* Then the totals of batch_info.
ListFiles ==
    /\ batch.pc = "start"
    /\ \E listed \in BOOLEAN :
          IF listed
          THEN /\ batch' = [batch EXCEPT !.pc = "loop", !.folder = "index1", !.i = 1,
                                         !.listed = TRUE,
                                         !.index1_files = ImageFiles("index1"),
                                         !.index2_files = ImageFiles("index2")]
               /\ results' = [results EXCEPT
                     !.batch_info =
                         [total_index1_docs |-> Len(ImageFiles("index1")),
                          total_index2_docs |-> Len(ImageFiles("index2")),
                          total_docs |-> Len(ImageFiles("index1"))
                                         + Len(ImageFiles("index2"))]]
          ELSE batch' = [batch EXCEPT !.pc = "done"] /\ UNCHANGED results
    /\ UNCHANGED <<content, extracted, dir, lanes, call, conn, db, trace>>

\* result = extract_document(path, "INDEX_1" / "INDEX_2", debug=debug): the call.
CallExtract ==
    /\ batch.pc = "loop"
    /\ batch.i <= Len(FilesOf(batch.folder))
    /\ call' = [call EXCEPT !["batch"] =
           [NoCall EXCEPT !.pc = "encode",
                          !.image_path = FilesOf(batch.folder)[batch.i],
                          !.index_type = IndexType(batch.folder),
                          !.before = db]]
    /\ trace' = Append(trace, [ev |-> "extract",
                               path |-> FilesOf(batch.folder)[batch.i],
                               index_type |-> IndexType(batch.folder)])
    /\ batch' = [batch EXCEPT !.pc = "wait"]
    /\ UNCHANGED <<content, extracted, dir, lanes, results, conn, db>>

\* Mutant: only the error key makes a result a failure.
IsFailed_ErrorOnly(result) == HasKey(result, "error")

\* "error" in result or result.get("parsing_error")
IsFailed(result) == HasKey(result, "error") \/ Truthy(Get(result, "parsing_error"))

\* len(result.get('entries', [])) is defined (TypeError otherwise).
HasLen(v) == v.kind \in {"list", "dict", "str", "text"}

\* Mutant: a failed result is appended without being counted.
Collect_FailureUncounted ==
    /\ batch.pc = "wait"
    /\ call["batch"].pc = "return"
    /\ LET result == call["batch"].result
           f == batch.folder
           listKey == IF f = "index1" THEN "index1_results" ELSE "index2_results"
           failKey == IF f = "index1" THEN "index1_failed" ELSE "index2_failed"
           okKey == IF f = "index1" THEN "index1_successful" ELSE "index2_successful"
       IN  /\ results' = [results EXCEPT
                 ![listKey] = Append(@, result),
                 !.summary[okKey] = IF IsFailed(result) THEN @ ELSE @ + 1]
           /\ batch' = [batch EXCEPT
                 !.pc = IF ~IsFailed(result)
                           /\ ~HasLen(GetOr(result, "entries", List(<<>>)))
                        THEN "raised"
                        ELSE IF batch.i < Len(FilesOf(f)) THEN "sleep" ELSE "loop",
                 !.i = IF ~IsFailed(result)
                          /\ ~HasLen(GetOr(result, "entries", List(<<>>)))
                       THEN @
                       ELSE IF batch.i < Len(FilesOf(f)) THEN @ ELSE @ + 1]
    /\ call' = [call EXCEPT !["batch"] = NoCall]
    /\ conn' = [conn EXCEPT !["batch"] = ClosedConn]
    /\ UNCHANGED <<content, extracted, dir, lanes, db, trace>>

\* The call returns: the result is appended and counted; on success the
\* number of entries is printed.  The locals of the call are dropped; a
\* connection left open among them is closed when the interpreter frees it,
\* its transaction rolled back and its lock given up.  Until then the next
\* INSERT finds the database locked, which is one of the ways for executed
\* to be FALSE in InsertDocument.
Collect ==
    /\ batch.pc = "wait"
    /\ call["batch"].pc = "return"
    /\ LET result == call["batch"].result
           f == batch.folder
           listKey == IF f = "index1" THEN "index1_results" ELSE "index2_results"
           failKey == IF f = "index1" THEN "index1_failed" ELSE "index2_failed"
           okKey == IF f = "index1" THEN "index1_successful" ELSE "index2_successful"
       IN  /\ results' = [results EXCEPT
                 ![listKey] = Append(@, result),
                 !.summary[IF IsFailed(result) THEN failKey ELSE okKey] = @ + 1]
           /\ batch' = [batch EXCEPT
                 !.pc = IF ~IsFailed(result)
                           /\ ~HasLen(GetOr(result, "entries", List(<<>>)))
                        THEN "raised"
                        ELSE IF batch.i < Len(FilesOf(f)) THEN "sleep" ELSE "loop",
                 !.i = IF ~IsFailed(result)
                          /\ ~HasLen(GetOr(result, "entries", List(<<>>)))
                       THEN @
                       ELSE IF batch.i < Len(FilesOf(f)) THEN @ ELSE @ + 1]
    /\ call' = [call EXCEPT !["batch"] = NoCall]
    /\ conn' = [conn EXCEPT !["batch"] = ClosedConn]
    /\ UNCHANGED <<content, extracted, dir, lanes, db, trace>>

\* time.sleep(delay_seconds), before the next file of the folder.
Sleep ==
    /\ batch.pc = "sleep"
    /\ trace' = Append(trace, [ev |-> "sleep", path |-> None, index_type |-> ""])
    /\ batch' = [batch EXCEPT !.pc = "loop", !.i = @ + 1]
    /\ UNCHANGED <<content, extracted, dir, lanes, results, call, conn, db>>

\* The loop over the INDEX I files is over: on to the INDEX II files.
NextFolder ==
    /\ batch.pc = "loop"
    /\ batch.i > Len(FilesOf(batch.folder))
    /\ batch.folder = "index1"
    /\ batch' = [batch EXCEPT !.folder = "index2", !.i = 1]
    /\ UNCHANGED <<content, extracted, dir, lanes, results, call, conn, db, trace>>

\* Both loops are over: the summary is printed and the results file written
\* (a failure to write it is caught), and results is returned.
SaveResults ==
    /\ batch.pc = "loop"
    /\ batch.i > Len(FilesOf(batch.folder))
    /\ batch.folder = "index2"
    /\ \E written \in BOOLEAN : batch' = [batch EXCEPT !.pc = "done", !.saved = written]
    /\ UNCHANGED <<content, extracted, dir, lanes, results, call, conn, db, trace>>

ExtractStep(p) ==
    \/ Encode(p)
    \/ Post(p)
    \/ Parse(p)
    \/ Connect(p)
    \/ InsertDocument(p)
    \/ InsertEntry(p)
    \/ Commit(p)
    \/ Close(p)

Next ==
    \/ ListFiles
    \/ CallExtract
    \/ ExtractStep("batch")
    \/ Collect
    \/ Sleep
    \/ NextFolder
    \/ SaveResults

Spec == Init /\ [][Next]_vars

(***************************************************************************)
(* SpecLanes: process_index1_only and process_index2_only run side by side *)
(* (src/airflow/dags/extraction_dag.py), each in a process of its own, on  *)
(* the same database file                                                  *)
(***************************************************************************)
LaneFolder(p) == IF p = "lane1" THEN "index1" ELSE "index2"

\* glob.glob of *.jpg, *.jpeg and *.png: the pattern is matched with the
\* case of the letters as it is.
MatchesGlob(name) == name \in {"a.jpg", "b.png", "c.jpeg"}

\* sorted(glob(*.jpg) + glob(*.jpeg) + glob(*.png))
GlobFiles(folder) == SortedPaths(folder, {n \in dir[folder] : MatchesGlob(n)})

\* The folders that hold n files named as images: the first n of the
\* listing, or the first n - 1 and one with its extension in capitals.
ImageFolders(n) ==
    {FolderWith(n, 1)}
        \cup (IF n > 0 THEN {FolderWith(n - 1, 1) \cup {"d.JPG"}} ELSE {})

InitLanes ==
    /\ content = <<>>
    /\ extracted = Idle
    /\ \E n1, n2 \in 0..MaxLaneFiles :
          /\ n1 + n2 <= MaxLaneFiles
          /\ \E f1 \in ImageFolders(n1), f2 \in ImageFolders(n2) :
                dir = [index1 |-> f1, index2 |-> f2]
    /\ batch = NewBatch
    /\ results = NewResults
    /\ call = [p \in Procs |-> NoCall]
    /\ conn = [p \in Procs |-> ClosedConn]
    /\ db = EmptyDb
    /\ trace = <<>>
    /\ lanes = [p \in Lanes |-> NewLane]

\* index_files = glob.glob(...) + glob.glob(...) + glob.glob(...); results = []
LaneGlob(p) ==
    /\ lanes[p].pc = "start"
    /\ lanes' = [lanes EXCEPT ![p].pc = "loop", ![p].files = GlobFiles(LaneFolder(p))]
    /\ UNCHANGED <<content, extracted, dir, batch, results, call, conn, db, trace>>

\* result = extract_document(file_path, "INDEX_1" / "INDEX_2", debug=False)
LaneCall(p) ==
    /\ lanes[p].pc = "loop"
    /\ lanes[p].i <= Len(lanes[p].files)
    /\ call' = [call EXCEPT ![p] =
           [NoCall EXCEPT !.pc = "encode",
                          !.image_path = lanes[p].files[lanes[p].i],
                          !.index_type = IndexType(LaneFolder(p)),
                          !.before = db]]
    /\ lanes' = [lanes EXCEPT ![p].pc = "wait"]
    /\ UNCHANGED <<content, extracted, dir, batch, results, conn, db, trace>>

\* results.append(result), and on to the next file.  The locals of the call
\* are dropped as in Collect.
LaneCollect(p) ==
    /\ lanes[p].pc = "wait"
    /\ call[p].pc = "return"
    /\ lanes' = [lanes EXCEPT ![p].pc = "loop", ![p].i = @ + 1,
                              ![p].results = Append(@, call[p].result)]
    /\ call' = [call EXCEPT ![p] = NoCall]
    /\ conn' = [conn EXCEPT ![p] = ClosedConn]
    /\ UNCHANGED <<content, extracted, dir, batch, results, db, trace>>

\* return results
LaneReturn(p) ==
    /\ lanes[p].pc = "loop"
    /\ lanes[p].i > Len(lanes[p].files)
    /\ lanes' = [lanes EXCEPT ![p].pc = "done"]
    /\ UNCHANGED <<content, extracted, dir, batch, results, call, conn, db, trace>>

LaneStep(p) ==
    \/ LaneGlob(p)
    \/ LaneCall(p)
    \/ ExtractStep(p)
    \/ LaneCollect(p)
    \/ LaneReturn(p)

NextLanes == \E p \in Lanes : LaneStep(p)

SpecLanes == InitLanes /\ [][NextLanes]_vars

(***************************************************************************)
(* SpecExtract: extract_json_from_response applied to every bounded text   *)
(***************************************************************************)
Alphabet == {"{", "}", "a:1", "\n", " ", "FENCE", "x", "1"}

Obj0 == <<"{", "document_type", ":", "INDEX_1", ",", "entries", ":", "[", "]", "}">>

Samples == {
    \* the examples of the specification
    <<"x", "\n", "FENCE", "json", "\n", "{", "a:1", "}", "\n", "FENCE", "\n", "x">>,
    <<"{", "a:1", "}">>,
    \* prose on the line of the object
    <<"x", " ", "{", "a:1", "}">>,
    <<"x", "\n", "{", "a:1", "}", " ", "x">>,
    \* an object inside an array, and bare scalars
    <<"[", "{", "a:1", "}", "]">>,
    <<"null">>,
    \* a fenced body that does not parse, an object on a line of its own
    <<"{", "}", "\n", "FENCE", "{", "x", "}", "FENCE">>,
    \* an inner object on lines of its own
    <<"x", " ", "{", "a", ":", "\n", "{", "a:1", "}", "\n", "}", " ", "x">>,
    \* a fenced full document, pretty-printed
    <<"x", "\n", "FENCE", "\n">> \o Obj0 \o <<"\n", "FENCE">>,
    <<"x", "\n", "{", "\n", "a:1", ",", "\n", "entries", ":", "[", "{", "}", "]",
      "\n", "}", "\n", "x">>
}

Texts == UNION {[1..n -> Alphabet] : n \in 0..MaxLen} \cup Samples

InitExtract ==
    /\ content \in Texts
    /\ extracted = Idle
    /\ PipeIdle

\* extract_json_from_response(content)
ExtractCall ==
    /\ extracted = Idle
    /\ extracted' = ExtractJson(content)
    /\ UNCHANGED <<content, pipeVars>>

NextExtract == ExtractCall

SpecExtract == InitExtract /\ [][NextExtract]_vars

(***************************************************************************)
(* Claims about extract_json_from_response (checked under SpecExtract)     *)
(***************************************************************************)
Returned == extracted # Idle

\* C1: for every input text the function returns a parsed JSON object (a
\* key/value mapping) or None, and no other kind of value.
C1_ObjectOrNone == Returned => (extracted.val = None \/ IsDict(extracted.val))

IsPrefix(p, q) == Len(p) <= Len(q) /\ SubSeq(q, 1, Len(p)) = p
Has(q, e) == \E i \in 1..Len(q) : q[i] = e

\* C2: the strategies run in the order direct parse, fenced block, line
\* scan; the first that parses gives the result and no later one runs; a
\* later one runs only when every earlier one failed; a fenced body that
\* does not parse still leads to the line scan.
C2_TierOrder ==
    Returned =>
        /\ IsPrefix(extracted.calls, <<"loads1", "search", "loads2", "scan", "loads3">>)
           \/ IsPrefix(extracted.calls, <<"loads1", "search", "scan", "loads3">>)
        /\ Tier1(content).ok =>
              /\ extracted.tier = 1 /\ extracted.val = Tier1(content).val
              /\ extracted.calls = <<"loads1">>
        /\ (~Tier1(content).ok /\ Tier2(content).ok) =>
              /\ extracted.tier = 2 /\ extracted.val = Tier2(content).val
              /\ ~Has(extracted.calls, "scan")
        /\ (~Tier1(content).ok /\ ~Tier2(content).ok) =>
              /\ Has(extracted.calls, "scan")
              /\ IF Tier3(content).ok
                 THEN extracted.tier = 3 /\ extracted.val = Tier3(content).val
                 ELSE extracted.tier = 0 /\ extracted.val = None
        /\ Has(extracted.calls, "search") => ~Tier1(content).ok
        /\ Has(extracted.calls, "scan") => ~Tier1(content).ok /\ ~Tier2(content).ok

\* C2 witness: a fenced body was parsed and failed, and the line scan then
\* returned an object.
C2_Witness ==
    /\ Returned /\ extracted.tier = 3 /\ IsDict(extracted.val)
    /\ Has(extracted.calls, "loads2")

\* A text that holds a single JSON object: the span from its first opening
\* brace to its last closing brace parses, and the text before and after it
\* is prose (words, blanks, line breaks, fences, the tag).
Prose == {"x", " ", "\n", "FENCE", "json"}
Opens(s) == {i \in 1..Len(s) : s[i] = "{"}
Closes(s) == {i \in 1..Len(s) : s[i] = "}"}
ObjFrom(s) == Min(Opens(s))
ObjTo(s) == Max(Closes(s))
Before(s) == SubSeq(s, 1, ObjFrom(s) - 1)
After(s) == SubSeq(s, ObjTo(s) + 1, Len(s))
TheObject(s) == SubSeq(s, ObjFrom(s), ObjTo(s))
AllIn(q, S) == \A i \in 1..Len(q) : q[i] \in S
SingleObject(s) ==
    /\ Opens(s) # {} /\ Closes(s) # {} /\ ObjFrom(s) < ObjTo(s)
    /\ AllIn(Before(s), Prose) /\ AllIn(After(s), Prose)
    /\ JsonLoads(TheObject(s)).ok

\* The part of q after its last line break, and before its first.
RECURSIVE LastLine(_)
LastLine(q) ==
    IF q = <<>> \/ q[Len(q)] = "\n" THEN <<>>
    ELSE Append(LastLine(SubSeq(q, 1, Len(q) - 1)), q[Len(q)])
RECURSIVE FirstLine(_)
FirstLine(q) ==
    IF q = <<>> \/ Head(q) = "\n" THEN <<>> ELSE <<Head(q)>> \o FirstLine(Tail(q))

\* Only blanks share the first and the last line of the object with it.
OnOwnLines(s) ==
    AllIn(LastLine(Before(s)), {" "}) /\ AllIn(FirstLine(After(s)), {" "})

\* The object is the body of a fenced block: fence, optional tag, whitespace
\* before it; whitespace, fence after it.
InFence(s) ==
    LET p == RStrip(Before(s))
        q == LStrip(After(s))
    IN  /\ p # <<>> /\ q # <<>> /\ q[1] = Fence
        /\ \/ p[Len(p)] = Fence
           \/ Len(p) >= 2 /\ p[Len(p)] = JsonTag /\ p[Len(p) - 1] = Fence

ScanLines(s) == SplitLines(Strip(s), <<>>)

\* The first line, from the top, whose trimmed form starts with a brace, and
\* the last line, from the bottom, whose trimmed form ends with one; 0 when
\* there is none.
StartLine(s) ==
    LET S == {i \in 1..Len(ScanLines(s)) : StartsWithBrace(ScanLines(s)[i])}
    IN  IF S = {} THEN 0 ELSE CHOOSE i \in S : \A j \in S : i <= j
EndLine(s) ==
    LET E == {i \in 1..Len(ScanLines(s)) : EndsWithBrace(ScanLines(s)[i])}
    IN  IF E = {} THEN 0 ELSE CHOOSE i \in E : \A j \in E : i >= j

\* The lines a to b, both included, with the line breaks between them.
RECURSIVE RangeText(_, _, _)
RangeText(lines, a, b) ==
    IF a > b THEN <<>>
    ELSE lines[a] \o (IF a < b THEN <<"\n">> \o RangeText(lines, a + 1, b) ELSE <<>>)

\* C18: when the direct parse and the fenced block have failed, the result
\* is the parse of the lines from the first that starts with a brace to the
\* last that ends with one, both included; it is None when there is no such
\* first line or no such last line, when the last comes before the first,
\* or when the joined lines do not parse.
C18_LineScanFirstOpenLastClose ==
    (Returned /\ ~Tier1(content).ok /\ ~Tier2(content).ok) =>
        LET a == StartLine(content)
            b == EndLine(content)
        IN  IF a = 0 \/ b = 0 \/ b < a
            THEN extracted.val = None /\ extracted.tier = 0
            ELSE LET r == JsonLoads(RangeText(ScanLines(content), a, b)) IN
                 IF r.ok THEN extracted.val = r.val /\ extracted.tier = 3
                 ELSE extracted.val = None /\ extracted.tier = 0

\* C18 witness: an object spread over several lines, with a line of prose
\* above and one below, is returned by the line scan.
C18_Witness ==
    /\ Returned /\ extracted.tier = 3 /\ IsDict(extracted.val)
    /\ 1 < StartLine(content) /\ StartLine(content) < EndLine(content)
    /\ EndLine(content) < Len(ScanLines(content))

(***************************************************************************)
(* Claims about extract_document and the batch (checked under Spec)        *)
(***************************************************************************)
Returning(p) == call[p].pc = "return"

\* What the extractor made of the reply of the call, None when it had no text.
Parsed(p) ==
    IF call[p].content.kind = "text" THEN ExtractJson(call[p].content.text).val ELSE None

\* The rows the call of p has added to the committed tables.
NewRows(p, table) ==
    SubSeq(db[table], Len(call[p].before[table]) + 1, Len(db[table]))
NewEntries(p) == NewRows(p, "index1_entries") \o NewRows(p, "index2_entries")

NoBraceSpan(t) == ~\E i, j \in 1..Len(t) : i < j /\ t[i] = "{" /\ t[j] = "}"

\* C4: for every reply that holds no { ... } span, extract_document returns
\* the JSON-parsing failure result (parsing_error true) with the reply
\* attached unchanged as raw_content.
C4_NoBraceSpanIsParseFailure ==
    \A p \in Procs :
        (Returning(p) /\ call[p].content.kind = "text"
            /\ NoBraceSpan(call[p].content.text)) =>
            /\ Truthy(Get(call[p].result, "parsing_error"))
            /\ Get(call[p].result, "raw_content") = call[p].content

\* The parsed response of the call is an object whose entries are an array.
HasEntriesArray(p) ==
    /\ IsDict(Parsed(p))
    /\ Get(Parsed(p), "entries").kind = "list"
EntriesCount(p) == Len(Get(Parsed(p), "entries").items)

OneDocumentWithEntries(p) ==
    /\ Len(NewRows(p, "documents")) = 1
    /\ Len(NewEntries(p)) = EntriesCount(p)
    /\ \A i \in 1..Len(NewEntries(p)) :
          NewEntries(p)[i].document_id = NewRows(p, "documents")[1].id

NoRows(p) == NewRows(p, "documents") = <<>> /\ NewEntries(p) = <<>>

WriteFailed(p) == HasKey(call[p].result, "database_error")

\* C5 as stated: for every parsed response whose entries array has N items,
\* the call creates exactly one Document row and exactly N Entry rows, each
\* with the id of that Document row.
C5_AlwaysOneDocumentNEntries ==
    \A p \in Procs :
        (Returning(p) /\ HasEntriesArray(p)) => OneDocumentWithEntries(p)

\* C5 amended: for every parsed response whose entries array has N items,
\* the call creates exactly one Document row and exactly N Entry rows, each
\* with the id of that Document row, when connecting, every insert and the
\* commit succeed, and creates no row when one of them fails (the result
\* then carries database_error).
C5_OneDocumentNEntriesUnlessWriteFails ==
    \A p \in Procs :
        (Returning(p) /\ HasEntriesArray(p)) =>
            IF WriteFailed(p) THEN NoRows(p) ELSE OneDocumentWithEntries(p)

\* C5 witness: a response with two entries has been written.
C5_Witness ==
    /\ Returning("batch") /\ HasEntriesArray("batch") /\ EntriesCount("batch") = 2
    /\ ~WriteFailed("batch") /\ OneDocumentWithEntries("batch")

EntryTables == {"index1_entries", "index2_entries"}

RefCount(id) ==
    Cardinality({<<t, i>> \in EntryTables \X (1..(Len(db.index1_entries) + Len(db.index2_entries))) :
                    i <= Len(db[t]) /\ db[t][i].document_id = id})

AllResults == results.index1_results \o results.index2_results

\* The objects extracted for the file: in the results, or by a call under way.
ObjectsFor(path) ==
    {AllResults[i] : i \in {i \in 1..Len(AllResults) :
                               Get(AllResults[i], "source_path") = path}}
    \cup {call[p].json_data : p \in {p \in Procs :
                               call[p].image_path = path /\ IsDict(call[p].json_data)}}

\* C6: the committed database holds, for each file, the Document row with
\* all of its Entry rows or no row of that file: every committed entry has
\* its document, no file has two documents, and every committed document
\* has as many entries as the object extracted for its file.
C6_Atomic ==
    /\ \A t \in EntryTables : \A i \in 1..Len(db[t]) :
          \E j \in 1..Len(db.documents) : db.documents[j].id = db[t][i].document_id
    /\ \A j, k \in 1..Len(db.documents) :
          db.documents[j].source_path = db.documents[k].source_path => j = k
    /\ \A j \in 1..Len(db.documents) :
          /\ ObjectsFor(db.documents[j].source_path) # {}
          /\ \A o \in ObjectsFor(db.documents[j].source_path) :
                /\ EntriesOf(o).ok
                /\ RefCount(db.documents[j].id) = Len(EntriesOf(o).items)

\* C6 witness: an entry insert failed after the document and an entry had
\* been inserted, and nothing of the file is committed.
C6_Witness ==
    /\ Returning("batch") /\ WriteFailed("batch")
    /\ conn["batch"].tx.documents # <<>>
    /\ conn["batch"].tx.index1_entries # <<>>
    /\ NoRows("batch")

DocumentExists(path) ==
    \E j \in 1..Len(db.documents) : db.documents[j].source_path = path

\* C7 as stated: a Document row exists for a processed file if and only if
\* the extraction step produced a JSON object for that file.
C7_DocumentIffObject ==
    \A p \in Procs :
        Returning(p) => (DocumentExists(call[p].image_path) <=> IsDict(Parsed(p)))

\* C7 amended: a Document row exists for a processed file if and only if
\* the extraction step produced a JSON object for that file and the
\* database write for it did not fail.
C7_DocumentIffObjectWritten ==
    \A p \in Procs :
        Returning(p) =>
            (DocumentExists(call[p].image_path)
                <=> (IsDict(Parsed(p)) /\ ~WriteFailed(p)))

\* C7 witness: an object was extracted, the write failed, no Document row.
C7_Witness ==
    /\ Returning("batch") /\ IsDict(Parsed("batch")) /\ WriteFailed("batch")
    /\ ~DocumentExists(call["batch"].image_path)

Extracts(path) == {i \in 1..Len(trace) : trace[i].ev = "extract" /\ trace[i].path = path}
ResultsOf(path) ==
    {i \in 1..Len(AllResults) : Get(AllResults[i], "source_path") = path}
ListedFiles == batch.index1_files \o batch.index2_files

\* C8: when process_batch_documents has ended, extract_document was called
\* exactly once for every listed file and there is one result per file.
C8_OneResultPerFile ==
    batch.pc \in {"done", "raised"} =>
        \A i \in 1..Len(ListedFiles) :
            /\ Cardinality(Extracts(ListedFiles[i])) = 1
            /\ Cardinality(ResultsOf(ListedFiles[i])) = 1

EncodingFailed(p) ==
    Returning(p) /\ Get(call[p].result, "error") = Str("Image encoding error")

\* C9: one call sends at most one HTTP request: none until the image is
\* encoded, none when encoding failed, exactly one once the request was
\* made, whatever came of it.
C9_OneRequest ==
    \A p \in Procs :
        /\ call[p].posts <= 1
        /\ call[p].pc \in {"idle", "encode", "post"} => call[p].posts = 0
        /\ call[p].pc \in {"parse", "connect", "insert_document", "insert_entries",
                           "commit", "close"} => call[p].posts = 1
        /\ Returning(p) => (call[p].posts = 0 <=> EncodingFailed(p))

\* C9 witness: the request failed and was sent once.
C9_Witness ==
    /\ Returning("batch") /\ call["batch"].posts = 1
    /\ Get(call["batch"].result, "error") = Str("Request error")

SystemKeys == {"source_path", "processed_at", "index_type"}

\* C10: when an object was extracted and the database write failed, the
\* call returns that object with database_error, and with error or
\* parsing_error only if the object itself had them.
C10_DatabaseErrorKeepsObject ==
    \A p \in Procs :
        (Returning(p) /\ IsDict(Parsed(p)) /\ NoRows(p)) =>
            /\ IsDict(call[p].result)
            /\ HasKey(call[p].result, "database_error")
            /\ DOMAIN call[p].result.map
                  = DOMAIN Parsed(p).map \cup SystemKeys \cup {"database_error"}
            /\ \A k \in DOMAIN Parsed(p).map \ SystemKeys :
                  call[p].result.map[k] = Parsed(p).map[k]
            /\ HasKey(call[p].result, "error") <=> HasKey(Parsed(p), "error")
            /\ HasKey(call[p].result, "parsing_error") <=> HasKey(Parsed(p), "parsing_error")

\* C10 witness: the commit failed for an object with entries.
C10_Witness ==
    /\ Returning("batch") /\ IsDict(Parsed("batch")) /\ NoRows("batch")
    /\ HasKey(call["batch"].result, "database_error")
    /\ ~HasKey(call["batch"].result, "error")
    /\ conn["batch"].tx.index1_entries # <<>>

\* A result carries an error key or a parsing_error that counts as true.
ErrorOrParsingError(r) == HasKey(r, "error") \/ Truthy(Get(r, "parsing_error"))
FailedIn(list) == Cardinality({i \in 1..Len(list) : ErrorOrParsingError(list[i])})

\* C11: of the results appended for a folder, those counted as failed are
\* exactly the ones with an error key or a true parsing_error, and all the
\* others are counted as successful.
C11_FailedIffErrorOrParsingError ==
    /\ results.summary.index1_failed = FailedIn(results.index1_results)
    /\ results.summary.index1_successful
          = Len(results.index1_results) - FailedIn(results.index1_results)
    /\ results.summary.index2_failed = FailedIn(results.index2_results)
    /\ results.summary.index2_successful
          = Len(results.index2_results) - FailedIn(results.index2_results)

\* C11 witness: a result with a true parsing_error and no error key is
\* counted as failed, next to a result counted as successful.
C11_Witness ==
    /\ \E i \in 1..Len(results.index1_results) :
          /\ ~HasKey(results.index1_results[i], "error")
          /\ Truthy(Get(results.index1_results[i], "parsing_error"))
    /\ results.summary.index1_failed = 1
    /\ results.summary.index1_successful = 1

ExtractEvents == SelectSeq(trace, LAMBDA e : e.ev = "extract")
ImageNames(folder) == {n \in dir[folder] : IsImage(n)}
FolderOf(index_type) == IF index_type = "INDEX_1" THEN "index1" ELSE "index2"

\* C12: the files of a folder are processed in the lexicographic order of
\* their names, no INDEX I file is processed after an INDEX II file, only
\* image files of the folder are processed, and a run that returns after
\* the listing has processed all of them.
C12_SortedIndex1First ==
    LET ex == ExtractEvents IN
    /\ \A i, j \in 1..Len(ex) :
          i < j =>
            /\ ~(ex[i].index_type = "INDEX_2" /\ ex[j].index_type = "INDEX_1")
            /\ ex[i].index_type = ex[j].index_type
                  => Rank(ex[i].path.name) < Rank(ex[j].path.name)
    /\ \A i \in 1..Len(ex) :
          /\ ex[i].path.folder = FolderOf(ex[i].index_type)
          /\ ex[i].path.name \in ImageNames(ex[i].path.folder)
    /\ (batch.pc = "done" /\ batch.listed) =>
          \A f \in {"index1", "index2"} : \A n \in ImageNames(f) :
              \E i \in 1..Len(ex) : ex[i].path = Path(f, n)

\* C12 witness: the folder lists b.png before a.jpg; a.jpg was processed
\* first, b.png second, and the run has returned.
C12_Witness ==
    /\ batch.pc = "done" /\ batch.listed
    /\ {"a.jpg", "b.png"} \subseteq dir.index1
    /\ Len(ExtractEvents) = 2
    /\ ExtractEvents[1].path = Path("index1", "a.jpg")
    /\ ExtractEvents[2].path = Path("index1", "b.png")

\* C13: in the sequence of calls and sleeps of a run, every call but the
\* last is followed by a sleep and then by the next call, and nothing
\* follows the last call.
C13_OneSleepBetweenCalls ==
    /\ \A i \in 1..Len(trace) :
          trace[i].ev = (IF i % 2 = 1 THEN "extract" ELSE "sleep")
    /\ batch.pc = "done" => (trace = <<>> \/ trace[Len(trace)].ev = "extract")

\* C14: when a folder cannot be listed the run returns (it does not raise),
\* extract_document has not been called, every count is zero and both
\* result lists are empty.
C14_ListingFailureGivesEmptySummary ==
    (batch.pc # "start" /\ ~batch.listed) =>
        /\ batch.pc = "done"
        /\ ExtractEvents = <<>>
        /\ call["batch"] = NoCall
        /\ results.index1_results = <<>> /\ results.index2_results = <<>>
        /\ \A k \in DOMAIN results.summary : results.summary[k] = 0
        /\ \A k \in DOMAIN results.batch_info : results.batch_info[k] = 0
        /\ db = EmptyDb

\* C14 witness: the folders hold image files, the listing failed and the
\* run has returned.
C14_Witness ==
    /\ batch.pc = "done" /\ ~batch.listed
    /\ ImageNames("index1") # {} /\ ImageNames("index2") # {}

\* C16: a call that returns has closed the connection it opened: no
\* connection of the call is open, holds a transaction or holds the write
\* lock once the call is at its return.
C16_ClosedBeforeReturn ==
    \A p \in Procs :
        Returning(p) =>
            /\ ~conn[p].open
            /\ ~conn[p].lock
            /\ conn[p].tx = EmptyDb

DocumentOf(id) == CHOOSE j \in 1..Len(db.documents) : db.documents[j].id = id

\* C20: every stored Document has document_type INDEX_1 or INDEX_2, every
\* index1_entries row refers to a Document of type INDEX_1 and every
\* index2_entries row to a Document of type INDEX_2.
C20_KindMatchesEntries ==
    /\ \A j \in 1..Len(db.documents) :
          db.documents[j].document_type \in {Str("INDEX_1"), Str("INDEX_2")}
    /\ \A i \in 1..Len(db.index1_entries) :
          db.documents[DocumentOf(db.index1_entries[i].document_id)].document_type
              = Str("INDEX_1")
    /\ \A i \in 1..Len(db.index2_entries) :
          db.documents[DocumentOf(db.index2_entries[i].document_id)].document_type
              = Str("INDEX_2")

(***************************************************************************)
(* Claims about the two parallel tasks (checked under SpecLanes)           *)
(***************************************************************************)
TxEntries(p) == conn[p].tx.index1_entries \o conn[p].tx.index2_entries
DocIds(rows) == {rows[i].id : i \in 1..Len(rows)}
TableFolder(t) == IF t = "index1_entries" THEN "index1" ELSE "index2"

\* The objects a task extracted for the file: returned, or of a call under way.
LaneObjectsFor(path) ==
    UNION {{lanes[p].results[i] : i \in {i \in 1..Len(lanes[p].results) :
                Get(lanes[p].results[i], "source_path") = path}} : p \in Lanes}
    \cup {call[p].json_data : p \in {p \in Lanes :
                call[p].image_path = path /\ IsDict(call[p].json_data)}}

\* C15: with the two tasks interleaved in every way, a transaction holds
\* at most one Document row, and exactly one when it holds entries or is
\* committed; that row is the one of the file of the call, its id is used
\* by no other row, committed or not, and every entry of the transaction
\* refers to it; every committed entry refers to one committed Document of
\* the folder of its own task; and every committed Document has as many
\* entries as the object extracted for its file.
C15_LanesKeepTheirDocuments ==
    /\ \A p \in Lanes :
          LET tx == conn[p].tx IN
          /\ Len(tx.documents) <= 1
          /\ (call[p].pc = "commit" \/ TxEntries(p) # <<>>) => Len(tx.documents) = 1
          /\ tx[EntryTable(IndexType(IF p = "lane1" THEN "index2" ELSE "index1"))] = <<>>
          /\ tx.documents # <<>> =>
                /\ tx.documents[1].source_path = call[p].image_path
                /\ tx.documents[1].source_path.folder = LaneFolder(p)
                /\ tx.documents[1].id \notin DocIds(db.documents)
                /\ \A q \in Lanes \ {p} :
                      tx.documents[1].id \notin DocIds(conn[q].tx.documents)
                /\ \A i \in 1..Len(TxEntries(p)) :
                      TxEntries(p)[i].document_id = tx.documents[1].id
    /\ \A j, k \in 1..Len(db.documents) :
          db.documents[j].id = db.documents[k].id => j = k
    /\ \A t \in EntryTables : \A i \in 1..Len(db[t]) :
          \E j \in 1..Len(db.documents) :
              /\ db.documents[j].id = db[t][i].document_id
              /\ db.documents[j].source_path.folder = TableFolder(t)
    /\ \A j \in 1..Len(db.documents) :
          /\ LaneObjectsFor(db.documents[j].source_path) # {}
          /\ \A o \in LaneObjectsFor(db.documents[j].source_path) :
                RefCount(db.documents[j].id) = Len(EntriesOf(o).items)

\* C15 witness: the INDEX I task has committed a Document with entries and
\* is still in its call, while the INDEX II task is in the middle of its
\* own transaction.
C15_Witness ==
    /\ call["lane1"].pc = "close" /\ db.index1_entries # <<>>
    /\ call["lane2"].pc = "insert_entries"
    /\ conn["lane2"].tx.index2_entries # <<>>
    /\ conn["lane2"].tx.documents[1].id = 2

\* C17: a task processes the files that process_batch_documents processes
\* for the same folder, in the same order.
C17_LaneFilesAsBatch ==
    \A p \in Lanes :
        /\ lanes[p].pc # "start" => lanes[p].files = ImageFiles(LaneFolder(p))
        /\ lanes[p].pc = "done" =>
              /\ Len(lanes[p].results) = Len(ImageFiles(LaneFolder(p)))
              /\ \A i \in 1..Len(lanes[p].results) :
                    Get(lanes[p].results[i], "source_path")
                        = ImageFiles(LaneFolder(p))[i]

====
